---- MODULE Spec2Model ----
(***************************************************************************)
(* A model of memmod: the Process controller (attach / stop / cont /      *)
(* word read and write / base lookup / find / pointer_chain / drop) of    *)
(* src/src/lib.rs, the buffered ProcessWriter of src/src/writer.rs and    *)
(* the ProcessReader of src/src/reader.rs.                                 *)
(*                                                                         *)
(* A 64-bit word (i64 / usize) is a tuple of 8 bytes, least significant   *)
(* byte first, so that shifts, masks and the little-endian layout of the  *)
(* target's memory are computed and not assumed.                           *)
(***************************************************************************)
EXTENDS Integers, Sequences, FiniteSets, TLC

(***************************************************************************)
(* Bounds of the model.                                                    *)
(***************************************************************************)
\* number of bytes of the target that are mapped, starting at MemBase
MemSize == 24
\* number of operations of one behaviour that change the target's memory
MaxMemOps == 1
\* the backend call (counted from 1 within one operation) that may fail
MaxFuel == 3
\* number of bytes written through writers in one behaviour
MaxBytes == 17

\* the width of a pointer of the target, in bytes
POINTER_WIDTH == 8

\* first mapped address of the target: the line "1000-... rw-p" of the maps
MemBase == 16 * 16 * 16

(***************************************************************************)
(* 64-bit words as 8 bytes, little-endian.                                 *)
(***************************************************************************)
Byte == 0..255

RECURSIVE BitAnd(_, _)
BitAnd(a, b) ==
    IF a = 0 \/ b = 0 THEN 0
    ELSE (a % 2) * (b % 2) + 2 * BitAnd(a \div 2, b \div 2)

RECURSIVE BitOr(_, _)
BitOr(a, b) ==
    IF a = 0 THEN b
    ELSE IF b = 0 THEN a
    ELSE (IF a % 2 = 1 \/ b % 2 = 1 THEN 1 ELSE 0) + 2 * BitOr(a \div 2, b \div 2)

\* x | y and x & y on i64
WordOr(x, y) == [j \in 1..8 |-> BitOr(x[j], y[j])]
WordAnd(x, y) == [j \in 1..8 |-> BitAnd(x[j], y[j])]

\* x << (n * 8) on i64: the bits shifted out at the top are lost
Shl(x, n) == [j \in 1..8 |-> IF j - n >= 1 THEN x[j - n] ELSE 0]

\* x >> (n * 8) on i64: the sign bit fills the top
Shr(x, n) ==
    [j \in 1..8 |-> IF j + n <= 8 THEN x[j + n]
                    ELSE IF x[8] >= 128 THEN 255 ELSE 0]

\* (x as u8) for an i64 x
AsByte(x) == x[1]

\* (b as i64) for a u8 b
AsWord(b) == <<b, 0, 0, 0, 0, 0, 0, 0>>

ZeroWord == <<0, 0, 0, 0, 0, 0, 0, 0>>

\* i64::MAX = 0x7FFF_FFFF_FFFF_FFFF
I64_MAX == <<255, 255, 255, 255, 255, 255, 255, 127>>

(***************************************************************************)
(* The state.                                                              *)
(***************************************************************************)
VARIABLES
    life,       \* "unattached", "attached", "failed", "dropped", "panicked"
    stopped,    \* Process.stopped
    base,       \* Process.base: <<>> is None, <<b>> is Some(b)
    traced,     \* the OS-level attachment exists
    mem,        \* the target's mapped memory, byte by byte
    maps,       \* the lines of /proc/<pid>/maps
    lastSig,    \* the last pause/resume event issued to the target
    fresh,      \* no stop(), read or write since the attach
    detaches,   \* the detach requests issued, each with its signal
    memops,     \* memory-changing operations so far
    wst,        \* the ProcessWriter: "none", "open", "suspended" (reborrowed
                \* by a stream opened through it), "released", "panicked"
    waddress,   \* ProcessWriter.address
    data,       \* ProcessWriter.data
    advance,    \* ProcessWriter.advance
    accepted,   \* number of bytes write() has accepted so far
    applied,    \* number of bytes successful flushes have taken from data
    pid,        \* Process.pid: 0 while there is no Process
    rdr,        \* the ProcessReader: st, address, length, advance
    last        \* the last operation: arguments, result, backend calls

vars == <<life, stopped, base, traced, mem, maps, lastSig, fresh, detaches,
          memops, wst, waddress, data, advance, accepted, applied, pid,
          rdr, last>>

procVars == <<life, stopped, base, traced, lastSig, fresh, detaches>>
writerVars == <<wst, waddress, data, advance, accepted, applied>>

None == <<>>
Some(x) == <<x>>

MemAddrs == MemBase..(MemBase + MemSize - 1)

\* a word access at addr touches addr .. addr+7; all of them must be mapped
Mapped(addr) == addr \in MemAddrs /\ (addr + 7) \in MemAddrs

(***************************************************************************)
(* /proc/<pid>/maps.  A line is its text before the first '-' (a sequence  *)
(* of characters: 0..15 are the hex digits, 16 is any other character),   *)
(* whether it contains "rw-p" and whether it contains the process name.   *)
(***************************************************************************)
Line(start, rw, named) == [start |-> start, rw |-> rw, named |-> named]

MapsNormal == << Line(<<0, 8, 0, 0>>, FALSE, TRUE),
                 Line(<<1, 0, 0, 0>>, TRUE, TRUE),
                 Line(<<1, 0, 0, 8>>, TRUE, TRUE) >>
MapsMoved  == << Line(<<1, 0, 0, 8>>, TRUE, TRUE),
                 Line(<<1, 0, 0, 0>>, TRUE, FALSE) >>
MapsNoFit  == << Line(<<0, 8, 0, 0>>, FALSE, TRUE),
                 Line(<<1, 0, 0, 0>>, TRUE, FALSE) >>
MapsBad    == << Line(<<1, 16, 0>>, TRUE, TRUE),
                 Line(<<1, 0, 0, 0>>, TRUE, TRUE) >>

MapsChoices == {MapsNormal, MapsMoved, MapsNoFit, MapsBad}

\* usize::from_str_radix(s, 16): -1 stands for the parse error
RECURSIVE from_str_radix(_)
from_str_radix(s) ==
    IF s = <<>> THEN -1
    ELSE IF s[Len(s)] > 15 THEN -1
    ELSE IF Len(s) = 1 THEN s[1]
    ELSE LET hi == from_str_radix(SubSeq(s, 1, Len(s) - 1))
         IN  IF hi < 0 THEN -1 ELSE hi * 16 + s[Len(s)]

(***************************************************************************)
(* One operation runs on a record w of everything it may change, from     *)
(* World(f) to the values the action commits.  f is the backend call of   *)
(* this operation that fails (0: none); err is the Err(..) the operation  *)
(* returns through `?`; pauses, resumes and acc are what it sent.         *)
(***************************************************************************)
WorldOf(st, b, m, sig, f) ==
    [stopped |-> st, base |-> b, mem |-> m, lastSig |-> sig,
     fuel |-> f, err |-> FALSE, error |-> "none", panic |-> FALSE, ret |-> <<>>, buf |-> <<>>,
     pauses |-> 0, resumes |-> 0, lookups |-> 0, acc |-> <<>>]

World(f) == WorldOf(stopped, base, mem, lastSig, f)

Fails(w) == w.fuel = 1
Tick(w) == [w EXCEPT !.fuel = IF @ > 0 THEN @ - 1 ELSE 0]
Raise(w) == [Tick(w) EXCEPT !.err = TRUE]

\* signal::kill(pid, sig)
kill(w, sig) ==
    IF Fails(w) THEN Raise(w)
    ELSE [Tick(w) EXCEPT !.lastSig = sig,
                         !.pauses = @ + (IF sig = "SIGSTOP" THEN 1 ELSE 0),
                         !.resumes = @ + (IF sig = "SIGCONT" THEN 1 ELSE 0)]

\* waitpid(pid, None)
waitpid(w) == IF Fails(w) THEN Raise(w) ELSE Tick(w)

\* ptrace::read(pid, addr): PTRACE_PEEKDATA
ptrace_read(w, addr) ==
    LET w1 == [w EXCEPT !.acc = Append(@, [kind |-> "read", addr |-> addr,
                                            stopped |-> w.stopped])]
    IN  IF Fails(w1) \/ ~Mapped(addr) THEN Raise(w1)
        ELSE [Tick(w1) EXCEPT !.ret = [j \in 1..8 |-> w.mem[addr + j - 1]]]

\* ptrace::write(pid, addr, data): PTRACE_POKEDATA
ptrace_write(w, addr, word) ==
    LET w1 == [w EXCEPT !.acc = Append(@, [kind |-> "write", addr |-> addr,
                                            stopped |-> w.stopped])]
    IN  IF Fails(w1) \/ ~Mapped(addr) THEN Raise(w1)
        ELSE [Tick(w1) EXCEPT
                !.mem = [a \in MemAddrs |->
                            IF a >= addr /\ a <= addr + 7
                            THEN word[a - addr + 1] ELSE w.mem[a]],
                !.ret = <<>>]

\* read_to_string("/proc/<pid>/maps")
read_maps(w) ==
    LET w1 == [w EXCEPT !.lookups = @ + 1]
    IN  IF Fails(w1) THEN Raise(w1) ELSE Tick(w1)

(***************************************************************************)
(* Process                                                                 *)
(***************************************************************************)
\* str::contains(target)
contains(name, target) ==
    \E i \in 0..(Len(name) - Len(target)) :
        SubSeq(name, i + 1, i + Len(target)) = target

\* file_name.chars().all(char::is_numeric): a character is a digit 0..9 or
\* 16, which stands for any other character
all_numeric(file) == \A i \in 1..Len(file) : file[i] \in 0..9

\* file_name.parse::<i32>() of a numeric name
RECURSIVE parse_pid(_)
parse_pid(file) ==
    IF file = <<>> THEN 0
    ELSE parse_pid(SubSeq(file, 1, Len(file) - 1)) * 10 + file[Len(file)]

\* check_process_status_file / check_process_status_file_strict on the
\* name of the status file
check_process_status_file(name, target, strict) ==
    IF strict THEN name = target ELSE contains(name, target)

\* the `for entry in dir` of find and find_strict, from the i-th entry on;
\* fuel = 1: the read of the next status file fails
RECURSIVE find_scan(_, _, _, _, _)
find_scan(dir, i, target, strict, fuel) ==
    IF i > Len(dir) THEN [kind |-> "NotFound", pid |-> 0]
    ELSE IF ~all_numeric(dir[i].file)
         THEN find_scan(dir, i + 1, target, strict, fuel)
    ELSE IF fuel = 1 THEN [kind |-> "Err", pid |-> 0]
    ELSE IF check_process_status_file(dir[i].name, target, strict)
         THEN [kind |-> "found", pid |-> parse_pid(dir[i].file)]
    ELSE find_scan(dir, i + 1, target, strict,
                   IF fuel > 0 THEN fuel - 1 ELSE 0)

\* Process::find(target) / Process::find_strict(target) up to the call of
\* Process::new: fuel = 1 is a failing read_dir("/proc")
find(dir, target, strict, fuel) ==
    IF fuel = 1 THEN [kind |-> "Err", pid |-> 0]
    ELSE find_scan(dir, 1, target, strict, IF fuel > 0 THEN fuel - 1 ELSE 0)

\* the lines of the maps from the i-th on: the first one with "rw-p" and
\* the name decides
RECURSIVE scan_maps(_, _)
scan_maps(w, i) ==
    IF i > Len(maps) THEN [w EXCEPT !.err = TRUE]
    ELSE IF maps[i].rw /\ maps[i].named
         THEN LET b == from_str_radix(maps[i].start)
              IN  IF b < 0 THEN [w EXCEPT !.err = TRUE]
                  ELSE [w EXCEPT !.base = Some(b)]
         ELSE scan_maps(w, i + 1)

\* get_base that looks the base up again on every call
get_base_uncached(w) ==
    LET w1 == read_maps(w)
    IN  IF w1.err THEN w1 ELSE scan_maps(w1, 1)

get_base(w) ==
    IF w.base # None THEN w
    ELSE LET w1 == read_maps(w)
         IN  IF w1.err THEN w1 ELSE scan_maps(w1, 1)

\* stop() without the `if !self.stopped`
stop_unguarded(w) ==
    LET w1 == kill(w, "SIGSTOP")
    IN  IF w1.err THEN w1
        ELSE LET w2 == waitpid(w1)
             IN  IF w2.err THEN w2
                 ELSE [w2 EXCEPT !.stopped = TRUE]

stop(w) ==
    IF ~w.stopped
    THEN LET w1 == kill(w, "SIGSTOP")
         IN  IF w1.err THEN w1
             ELSE LET w2 == waitpid(w1)
                  IN  IF w2.err THEN w2
                      ELSE [w2 EXCEPT !.stopped = TRUE]
    ELSE w

\* cont() that forgets `self.stopped = false`
cont_keeps_flag(w) ==
    IF w.stopped THEN kill(w, "SIGCONT") ELSE w

cont(w) ==
    IF w.stopped
    THEN LET w1 == kill(w, "SIGCONT")
         IN  IF w1.err THEN w1
             ELSE [w1 EXCEPT !.stopped = FALSE]
    ELSE w

\* read_word without the `self.stop()?`
read_word_unstopped(w, address) == ptrace_read(w, address)

read_word(w, address) ==
    LET w1 == stop(w)
    IN  IF w1.err THEN w1 ELSE ptrace_read(w1, address)

write_word(w, address, word) ==
    LET w1 == stop(w)
    IN  IF w1.err THEN w1 ELSE ptrace_write(w1, address, word)

\* read_word_offset that forgets the base
read_word_offset_absolute(w, offset) ==
    LET w1 == get_base(w)
    IN  IF w1.err THEN w1 ELSE read_word(w1, offset)

read_word_offset(w, offset) ==
    LET w1 == get_base(w)
    IN  IF w1.err THEN w1 ELSE read_word(w1, w1.base[1] + offset)

write_word_offset(w, offset, word) ==
    LET w1 == get_base(w)
    IN  IF w1.err THEN w1 ELSE write_word(w1, w1.base[1] + offset, word)

(***************************************************************************)
(* ProcessWriter                                                           *)
(***************************************************************************)
\* the world of an operation of the open writer
WriterWorld(f) ==
    World(f) @@ [address |-> waddress, data |-> data, advance |-> advance]

\* a write that puts the new bytes in front of the pending ones
write_prepends(w, buf) ==
    [w EXCEPT !.data = buf \o @, !.ret = <<Len(buf)>>]

\* impl Write: `for byte in buf { self.data.push(*byte) }; Ok(buf.len())`
write(w, buf) ==
    [w EXCEPT !.data = @ \o buf, !.ret = <<Len(buf)>>]

\* the inner `for i in i..self.data.len()`: word |= data[k] << ((k % 8) * 8)
RECURSIVE pack_rest(_, _, _)
pack_rest(d, k, word) ==
    IF k >= Len(d) THEN word
    ELSE pack_rest(d, k + 1, WordOr(word, Shl(AsWord(d[k + 1]), k % 8)))

\* a mask that keeps nothing of the word in memory
tail_mask_none(difference) == ZeroWord

\* `source &= i64::MAX << (difference * 8)`
tail_mask(difference) == Shl(I64_MAX, difference)

\* the `for mut i in 0..self.data.len()` of flush, from index i on
RECURSIVE flush_loop(_, _, _, _)
flush_loop(w, i, word, wordi) ==
    IF i >= Len(w.data) THEN w
    ELSE
      LET n == Len(w.data)
          word1 == IF i % 8 = 0 THEN ZeroWord ELSE word
          word2 == WordOr(word1, Shl(AsWord(w.data[i + 1]), i % 8))
      IN  IF n % 8 # 0 /\ i \div 8 = n \div 8
          THEN LET difference == n - i
                   word3 == pack_rest(w.data, i + 1, word2)
                   w1 == read_word(w, w.address + wordi * 8)
               IN  IF w1.err THEN w1
                   ELSE LET source == WordAnd(w1.ret, tail_mask(difference))
                        IN  write_word(w1, w.address + wordi * 8,
                                       WordOr(word3, source))
          ELSE IF (i + 1) % 8 = 0
               THEN LET w1 == write_word(w, w.address + wordi * 8, word2)
                    IN  IF w1.err THEN w1
                        ELSE flush_loop(w1, i + 1, word2, wordi + 1)
               ELSE flush_loop(w, i + 1, word2, wordi)

\* a flush that clears the buffer and moves on whatever happened
flush_always_clears(w) ==
    LET w1 == flush_loop(w, 0, ZeroWord, 0)
    IN  [w1 EXCEPT !.address = IF w1.advance THEN @ + Len(w1.data) ELSE @,
                   !.data = <<>>]

flush(w) ==
    LET w1 == flush_loop(w, 0, ZeroWord, 0)
    IN  IF w1.err THEN w1
        ELSE [w1 EXCEPT !.address = IF w1.advance THEN @ + Len(w1.data) ELSE @,
                        !.data = <<>>,
                        !.ret = <<>>]

\* a drop that does not flush
drop_writer_forgets(w) == w

\* impl Drop for ProcessWriter: err stands for the panic
drop_writer(w) == IF w.data # <<>> THEN flush(w) ELSE w

(***************************************************************************)
(* usize.  A usize is held as the representative of least magnitude of    *)
(* its residue modulo 2^64: 2^64 - k is -k.  Wrapping addition and        *)
(* subtraction are then + and -, and `x as usize` of an isize x is x.     *)
(* With overflow checks (the debug profile) an addition or subtraction    *)
(* that leaves 0 .. 2^64 - 1 panics; without them it wraps.               *)
(***************************************************************************)
\* a + b >= 2^64 on the unsigned values
add_overflows(a, b) ==
    IF a >= 0 /\ b >= 0 THEN FALSE
    ELSE IF a < 0 /\ b < 0 THEN TRUE
    ELSE a + b >= 0

\* a < b on the unsigned values
sub_overflows(a, b) ==
    IF (a >= 0) = (b >= 0) THEN a < b ELSE a >= 0

Panic(w) == [w EXCEPT !.panic = TRUE]

(***************************************************************************)
(* ProcessReader                                                           *)
(***************************************************************************)
Min(a, b) == IF a <= b THEN a ELSE b

\* a zeroed buffer of n bytes: `[0u8; n]`
ZeroBuf(n) == [k \in 1..n |-> 0]

\* the world of an operation of the open reader on the caller's buffer buf
ReaderWorld(f, checks, buf) ==
    [World(f) EXCEPT !.buf = buf]
        @@ [address |-> rdr.address, length |-> rdr.length,
            advance |-> rdr.advance, checks |-> checks]

\* `for j in 0..8 { buf[i + j] = ((word >> (j * 8)) & 0xff) as u8 }`, from
\* j on: an index at or past buf.len() panics
RECURSIVE copy_word(_, _, _, _)
copy_word(w, i, j, word) ==
    IF j >= 8 THEN w
    ELSE IF i + j >= Len(w.buf) THEN Panic(w)
    ELSE copy_word([w EXCEPT !.buf[i + j + 1] =
                        AsByte(WordAnd(Shr(word, j), AsWord(255)))],
                   i, j + 1, word)

\* `for i in (0..length).step_by(8)`, from i on
RECURSIVE read_loop(_, _, _)

\* after the copy of the stride at i into buf
read_next(w2, i, length) ==
    IF w2.panic THEN w2 ELSE read_loop(w2, i + 8, length)

\* after `self.proc.read_word(self.address + i)?` of the stride at i
read_stride(w1, i, length) ==
    IF w1.err THEN w1
    ELSE read_next(copy_word(w1, i, 0, w1.ret), i, length)

read_loop(w, i, length) ==
    IF i >= length THEN w
    ELSE IF w.checks /\ add_overflows(w.address, i) THEN Panic(w)
    ELSE read_stride(read_word(w, w.address + i), i, length)

\* an end of read that moves the cursor whatever the advance flag says
read_end_always_advances(w1, length) ==
    IF w1.err \/ w1.panic THEN w1
    ELSE [w1 EXCEPT !.address = @ + length, !.ret = <<length>>]

\* `if self.advance { self.address += length }; Ok(length)`
read_end(w1, length) ==
    IF w1.err \/ w1.panic THEN w1
    ELSE IF w1.advance /\ w1.checks /\ add_overflows(w1.address, length)
         THEN Panic(w1)
    ELSE [w1 EXCEPT !.address = IF w1.advance THEN @ + length ELSE @,
                    !.ret = <<length>>]

\* impl Read for ProcessReader
read(w) ==
    read_end(read_loop(w, 0, Min(Len(w.buf), w.length)),
             Min(Len(w.buf), w.length))

\* ProcessReader::offset(proc, offset, length): `proc.base.unwrap()`
ProcessReader_offset(w, offset) ==
    IF w.base = None THEN Panic(w)
    ELSE IF offset >= 0
         THEN IF w.checks /\ add_overflows(w.base[1], offset) THEN Panic(w)
              ELSE [w EXCEPT !.address = w.base[1] + offset]
         ELSE IF w.checks /\ sub_overflows(w.base[1], offset) THEN Panic(w)
              ELSE [w EXCEPT !.address = w.base[1] - offset]

\* ProcessReader::goto_offset(offset): `self.proc.base().unwrap()`
ProcessReader_goto_offset(w, offset) ==
    LET w1 == get_base(w)
    IN  IF w1.err THEN Panic(w1)
        ELSE IF offset >= 0
             THEN IF w1.checks /\ add_overflows(w1.base[1], offset)
                  THEN Panic(w1)
                  ELSE [w1 EXCEPT !.address = w1.base[1] + offset]
             ELSE IF w1.checks /\ sub_overflows(w1.base[1], offset)
                  THEN Panic(w1)
                  ELSE [w1 EXCEPT !.address = w1.base[1] - offset]

\* ProcessWriter::offset(proc, offset)
ProcessWriter_offset(w, offset) ==
    IF w.base = None THEN Panic(w)
    ELSE IF offset >= 0
         THEN IF w.checks /\ add_overflows(w.base[1], offset) THEN Panic(w)
              ELSE [w EXCEPT !.address = w.base[1] + offset]
         ELSE IF w.checks /\ sub_overflows(w.base[1], offset) THEN Panic(w)
              ELSE [w EXCEPT !.address = w.base[1] - offset]

\* ProcessWriter::goto_offset(offset)
ProcessWriter_goto_offset(w, offset) ==
    LET w1 == get_base(w)
    IN  IF w1.err THEN Panic(w1)
        ELSE IF offset >= 0
             THEN IF w1.checks /\ add_overflows(w1.base[1], offset)
                  THEN Panic(w1)
                  ELSE [w1 EXCEPT !.address = w1.base[1] + offset]
             ELSE IF w1.checks /\ sub_overflows(w1.base[1], offset)
                  THEN Panic(w1)
                  ELSE [w1 EXCEPT !.address = w1.base[1] - offset]

(***************************************************************************)
(* Process: the streams it hands out.  The world of these operations has  *)
(* the address the new stream starts at.                                   *)
(***************************************************************************)
StreamWorld(f, checks) == World(f) @@ [address |-> 0, checks |-> checks]

\* a reader() that does not resolve the base
reader_unresolved(w, address) == [w EXCEPT !.address = address]

\* Process::reader(address, length)
reader(w, address) ==
    LET w1 == get_base(w)
    IN  IF w1.err THEN w1 ELSE [w1 EXCEPT !.address = address]

\* Process::writer(address)
writer(w, address) ==
    LET w1 == get_base(w)
    IN  IF w1.err THEN w1 ELSE [w1 EXCEPT !.address = address]

\* Process::reader_offset(offset, length)
reader_offset(w, offset) ==
    LET w1 == get_base(w)
    IN  IF w1.err THEN w1 ELSE ProcessReader_offset(w1, offset)

\* Process::writer_offset(offset)
writer_offset(w, offset) ==
    LET w1 == get_base(w)
    IN  IF w1.err THEN w1 ELSE ProcessWriter_offset(w1, offset)

\* Process::reader_addr(address, length): `address - base`
reader_addr(w, address) ==
    LET w1 == get_base(w)
    IN  IF w1.err THEN w1
        ELSE IF w1.checks /\ sub_overflows(address, w1.base[1]) THEN Panic(w1)
        ELSE [w1 EXCEPT !.address = address - w1.base[1]]

\* Process::writer_addr(address): `address - base`
writer_addr(w, address) ==
    LET w1 == get_base(w)
    IN  IF w1.err THEN w1
        ELSE IF w1.checks /\ sub_overflows(address, w1.base[1]) THEN Panic(w1)
        ELSE [w1 EXCEPT !.address = address - w1.base[1]]

\* Read::read_exact(buf): read until buf is full; a read of 0 bytes is the
\* error UnexpectedEof
RECURSIVE read_exact(_)

\* after one read of read_exact: the rest of buf is filled by the next ones
read_exact_rest(w1) ==
    IF w1.err \/ w1.panic THEN w1
    ELSE IF w1.ret[1] = 0 THEN [w1 EXCEPT !.err = TRUE]
    ELSE [read_exact([w1 EXCEPT !.buf = SubSeq(@, w1.ret[1] + 1, Len(@))])
             EXCEPT !.buf = SubSeq(w1.buf, 1, w1.ret[1]) \o @]

read_exact(w) ==
    IF w.buf = <<>> THEN w ELSE read_exact_rest(read(w))

\* b[j] + 256 * b[j + 1] + 256^2 * b[j + 2] + ...
RECURSIVE le_sum(_, _)
le_sum(b, j) == IF j > Len(b) THEN 0 ELSE b[j] + 256 * le_sum(b, j + 1)

\* usize::from_le_bytes(bytes), as the representative of least magnitude
from_le_bytes(b) ==
    IF b[8] >= 128 THEN le_sum([j \in 1..8 |-> b[j] - 255], 1) - 1
    ELSE le_sum(b, 1)

\* usize::to_le_bytes(n) for 0 <= n < 2^24
to_le_bytes(n) ==
    [j \in 1..8 |-> IF j = 1 THEN n % 256
                    ELSE IF j = 2 THEN (n \div 256) % 256
                    ELSE IF j = 3 THEN (n \div (256 * 256)) % 256
                    ELSE 0]

\* `if *offset >= 0 { address += *offset as usize } else { address -=
\* offset.unsigned_abs() }`: <<>> stands for the overflow panic
apply_offset(address, offset, checks) ==
    IF offset >= 0
    THEN IF checks /\ add_overflows(address, offset)
         THEN <<>> ELSE <<address + offset>>
    ELSE IF checks /\ sub_overflows(address, -offset)
         THEN <<>> ELSE <<address - (-offset)>>

\* the `for offset in offsets.iter()` of pointer_chain, from the i-th on
RECURSIVE chain_loop(_, _, _, _)

\* after the offset is applied: next is the new address, <<>> the panic
chain_next(w1, next, offsets, i) ==
    IF next = <<>> THEN Panic(w1)
    ELSE chain_loop(w1, next[1], offsets, i + 1)

\* after `reader.read_exact(&mut address_bytes)?`
chain_step(w1, offsets, i) ==
    IF w1.err \/ w1.panic THEN w1
    ELSE chain_next(w1,
                    apply_offset(from_le_bytes(w1.buf), offsets[i], w1.checks),
                    offsets, i)

chain_loop(w, address, offsets, i) ==
    IF i > Len(offsets) THEN [w EXCEPT !.ret = <<address>>]
    ELSE chain_step(read_exact([w EXCEPT !.address = address,
                                         !.buf = ZeroBuf(POINTER_WIDTH)]),
                    offsets, i)

\* after `self.reader(address, POINTER_WIDTH)?.no_advance()`
chain_start(w1, address, offsets) ==
    IF w1.err THEN w1
    ELSE chain_loop(w1 @@ [length |-> POINTER_WIDTH, advance |-> FALSE],
                    address, offsets, 1)

\* Process::pointer_chain(address, offsets)
pointer_chain(w, address, offsets) ==
    chain_start(reader(w, address), address, offsets)

(***************************************************************************)
(* The inputs.                                                             *)
(***************************************************************************)
Offsets == {3, 16}
Bases == {MemBase, MemBase + 8}
Addresses == {b + o : b \in Bases, o \in Offsets}
Words == { <<136, 119, 102, 85, 68, 51, 34, 17>>,      \* 0x1122334455667788
           <<255, 255, 255, 255, 255, 255, 255, 255>> } \* -1
Fuels == 0..MaxFuel
\* the pid a caller of Process::new passes
TargetPid == 7
WriterAddresses == {MemBase, MemBase + 5}
\* the bytes a caller writes, in order: [0xAA, 0xBB, 0xCC], then 0x81, ...
Stream == [k \in 1..MaxBytes |->
              IF k = 1 THEN 170 ELSE IF k = 2 THEN 187 ELSE IF k = 3 THEN 204
              ELSE 125 + k]
BufLens == {3, 8}
\* the entries of /proc: three processes and one entry that is no process
Entry(file, name) == [file |-> file, name |-> name]
ProcEntries ==
    { Entry(<<7>>, <<"a", "p", "p">>),
      Entry(<<1, 2>>, <<"m", "y", "a", "p", "p", "-", "g", "u", "i">>),
      Entry(<<3, 0>>, <<"o", "t", "h", "e", "r">>),
      Entry(<<16, 16>>, <<>>) }
\* the orders read_dir may yield them in
DirOrders ==
    { d \in [1..Cardinality(ProcEntries) -> ProcEntries] :
        \A i, j \in DOMAIN d : i # j => d[i] # d[j] }
Targets == { <<"a", "p", "p">>, <<"m", "y", "a", "p", "p">>, <<"x">> }

\* where readers are opened, the windows they are good for, the buffers
\* read() is given (zeroed, as `[0u8; N]`), the offsets of the streams
ReaderLengths == {3, 8, 11}
ReadBufLens == {3, 8, 16}
StreamOffsets == {-3, 5}
\* absolute addresses for reader_addr / writer_addr: below and above the base
StreamAddresses == {8, MemBase + 13}
\* the buffers a write() may be given after n bytes of the stream
Bufs(n) == { SubSeq(Stream, n + 1, n + k) : k \in {j \in BufLens : n + j <= MaxBytes} }

\* a target whose words are pointers: [base] = base + 8, [base + 8] =
\* base + 16, [base + 16] = 3
PointerWords == <<MemBase + 8, MemBase + 16, 3>>
MemPointers ==
    [a \in MemAddrs |->
        LET k == (a - MemBase) \div 8
        IN  IF k < Len(PointerWords)
            THEN to_le_bytes(PointerWords[k + 1])[((a - MemBase) % 8) + 1]
            ELSE 0]
\* the chains a caller resolves, from the first pointer
ChainAddresses == {MemBase}
ChainOffsets == {-8, 0, 8}
OffsetSeqs ==
    {<<>>} \cup {<<x>> : x \in ChainOffsets}
           \cup {<<8, -8>>, <<0, 0>>}
           \cup {<<0, 0, x>> : x \in ChainOffsets \ {8}}

MemPattern == [a \in MemAddrs |-> 16 + ((a - MemBase) % 240)]
MemZero == [a \in MemAddrs |-> 0]

\* no ProcessReader exists
NoReader == [st |-> "none", address |-> 0, length |-> 0, advance |-> TRUE]

\* what the last operation was and did
Did(op, a, v, w) ==
    [op |-> op, a |-> a, v |-> v, ok |-> ~w.err, ret |-> w.ret,
     error |-> w.error, panic |-> w.panic, buf |-> w.buf,
     pauses |-> w.pauses, resumes |-> w.resumes, lookups |-> w.lookups,
     acc |-> w.acc,
     preStopped |-> stopped, preBase |-> base, preFresh |-> fresh,
     preMem |-> mem, preAddress |-> waddress, preData |-> data,
     preReader |-> rdr, preWst |-> wst,
     after |-> IF last.ok /\ last.a = a THEN last.op ELSE "other"]

NoOp == [op |-> "none", a |-> 0, v |-> <<>>, ok |-> TRUE, ret |-> <<>>,
         error |-> "none", panic |-> FALSE, buf |-> <<>>,
         pauses |-> 0, resumes |-> 0, lookups |-> 0, acc |-> <<>>,
         preStopped |-> FALSE, preBase |-> None, preFresh |-> FALSE,
         preMem |-> MemZero, preAddress |-> 0, preData |-> <<>>,
         preReader |-> NoReader, preWst |-> "none",
         after |-> "other"]

Init ==
    /\ life = "unattached"
    /\ stopped = FALSE
    /\ base = None
    /\ traced = FALSE
    /\ mem = MemPattern
    /\ maps \in MapsChoices
    /\ lastSig = "none"
    /\ fresh = FALSE
    /\ detaches = <<>>
    /\ memops = 0
    /\ wst = "none"
    /\ waddress = 0
    /\ data = <<>>
    /\ advance = TRUE
    /\ accepted = 0
    /\ applied = 0
    /\ pid = 0
    /\ rdr = NoReader
    /\ last = [NoOp EXCEPT !.preMem = mem]

\* the Process fields and the target after an operation that ran to w
Commit(w) ==
    /\ stopped' = w.stopped
    /\ base' = w.base
    /\ mem' = w.mem
    /\ lastSig' = w.lastSig

\* the behaviour may still change the target's memory; after its last
\* change only reads and releases are followed
Budget == memops < MaxMemOps

(***************************************************************************)
(* Process::new(pid): f = 1 the name cannot be read, f = 2 the attach is   *)
(* refused, f = 3 the wait for the stop fails.                             *)
(***************************************************************************)
New(f) ==
    /\ life = "unattached"
    /\ life' = IF f \in 1..3 THEN "failed" ELSE "attached"
    /\ traced' = (f \notin 1..2)
    /\ stopped' = (f \notin 1..3)
    /\ base' = None
    /\ lastSig' = IF f \notin 1..2 THEN "attach" ELSE lastSig
    /\ fresh' = (f \notin 1..3)
    /\ last' = [Did("new", 0, <<>>, World(f)) EXCEPT !.ok = (f \notin 1..3)]
    /\ UNCHANGED <<mem, maps, detaches, memops, writerVars>>
    /\ pid' = (IF f \in 1..3 THEN 0 ELSE TargetPid)
    /\ UNCHANGED rdr

Stop(f) ==
    /\ life = "attached"
    /\ LET w == stop(World(f))
       IN  /\ Commit(w)
           /\ last' = Did("stop", 0, <<>>, w)
    /\ fresh' = FALSE
    /\ UNCHANGED <<life, traced, maps, detaches, writerVars>>
    /\ UNCHANGED memops
    /\ UNCHANGED <<pid, rdr>>

Cont(f) ==
    /\ life = "attached"
    /\ LET w == cont(World(f))
       IN  /\ Commit(w)
           /\ last' = Did("cont", 0, <<>>, w)
    /\ UNCHANGED <<life, traced, maps, fresh, detaches, writerVars>>
    /\ UNCHANGED memops
    /\ UNCHANGED <<pid, rdr>>

GetBase(f) ==
    /\ life = "attached"
    /\ LET w == get_base(World(f))
       IN  /\ Commit(w)
           /\ last' = Did("get_base", 0, <<>>, w)
    /\ UNCHANGED <<life, traced, maps, fresh, detaches, writerVars>>
    /\ UNCHANGED memops
    /\ UNCHANGED <<pid, rdr>>

ReadWord(address, f) ==
    /\ life = "attached"
    /\ LET w == read_word(World(f), address)
       IN  /\ Commit(w)
           /\ last' = Did("read_word", address, <<>>, w)
    /\ fresh' = FALSE
    /\ UNCHANGED <<life, traced, maps, detaches, writerVars>>
    /\ UNCHANGED memops
    /\ UNCHANGED <<pid, rdr>>

WriteWord(address, word, f) ==
    /\ life = "attached"
    /\ Budget
    /\ LET w == write_word(World(f), address, word)
       IN  /\ Commit(w)
           /\ last' = Did("write_word", address, word, w)
    /\ fresh' = FALSE
    /\ UNCHANGED <<life, traced, maps, detaches, writerVars>>
    /\ memops' = IF mem' # mem THEN memops + 1 ELSE memops
    /\ UNCHANGED <<pid, rdr>>

ReadWordOffset(offset, f) ==
    /\ life = "attached"
    /\ LET w == read_word_offset(World(f), offset)
       IN  /\ Commit(w)
           /\ last' = Did("read_word_offset", offset, <<>>, w)
    /\ fresh' = FALSE
    /\ UNCHANGED <<life, traced, maps, detaches, writerVars>>
    /\ UNCHANGED memops
    /\ UNCHANGED <<pid, rdr>>

WriteWordOffset(offset, word, f) ==
    /\ life = "attached"
    /\ Budget
    /\ LET w == write_word_offset(World(f), offset, word)
       IN  /\ Commit(w)
           /\ last' = Did("write_word_offset", offset, word, w)
    /\ fresh' = FALSE
    /\ UNCHANGED <<life, traced, maps, detaches, writerVars>>
    /\ memops' = IF mem' # mem THEN memops + 1 ELSE memops
    /\ UNCHANGED <<pid, rdr>>

\* the target maps, unmaps or moves its regions
MapChange(m) ==
    /\ life = "attached"
    /\ m # maps
    /\ maps' = m
    /\ UNCHANGED <<procVars, mem, memops, writerVars, last>>
    /\ UNCHANGED <<pid, rdr>>

(***************************************************************************)
(* impl Drop for Process: f = 1 the detach fails.                          *)
(***************************************************************************)
\* a drop that never resumes
drop_signal_never(s) == "None"

drop_signal(s) == IF s THEN "SIGCONT" ELSE "None"

DropProcess(f) ==
    /\ life = "attached"
    /\ wst # "open"
    /\ detaches' = Append(detaches, drop_signal(stopped))
    /\ life' = IF f = 1 THEN "panicked" ELSE "dropped"
    /\ traced' = (f = 1)
    /\ lastSig' = IF f # 1 /\ stopped THEN "SIGCONT" ELSE lastSig
    /\ last' = [Did("drop", 0, <<>>, World(f)) EXCEPT !.ok = (f # 1)]
    /\ UNCHANGED <<stopped, base, mem, maps, fresh, memops, writerVars>>
    /\ UNCHANGED <<pid, rdr>>

Next ==
    \/ \E f \in Fuels : New(f)
    \/ \E f \in Fuels : Budget /\ Stop(f)
    \/ \E f \in Fuels : Budget /\ Cont(f)
    \/ \E f \in Fuels : Budget /\ GetBase(f)
    \/ \E a \in Addresses, f \in Fuels : ReadWord(a, f)
    \/ \E a \in Addresses, v \in Words, f \in Fuels : WriteWord(a, v, f)
    \/ \E o \in Offsets, f \in Fuels : ReadWordOffset(o, f)
    \/ \E o \in Offsets, v \in Words, f \in Fuels : WriteWordOffset(o, v, f)
    \/ \E m \in MapsChoices : Budget /\ MapChange(m)
    \/ \E f \in Fuels : DropProcess(f)

Spec == Init /\ [][Next]_vars

(***************************************************************************)
(* The stream writer.  It borrows the Process: one writer at a time, and  *)
(* the Process is not dropped while the writer is open.                    *)
(***************************************************************************)
CommitWriter(w) ==
    /\ Commit(w)
    /\ waddress' = w.address
    /\ data' = w.data
    /\ applied' = applied + (Len(data) - Len(w.data))

\* Process::writer(address)
OpenWriter(address, f) ==
    /\ life = "attached"
    /\ wst \in {"none", "released"}
    /\ LET w == writer(StreamWorld(f, FALSE), address)
       IN  /\ Commit(w)
           /\ last' = Did("writer", address, <<>>, w)
           /\ wst' = IF w.err THEN wst ELSE "open"
           /\ waddress' = IF w.err THEN waddress ELSE w.address
           /\ data' = IF w.err THEN data ELSE <<>>
           /\ advance' = IF w.err THEN advance ELSE TRUE
    /\ UNCHANGED <<life, traced, maps, fresh, detaches, accepted, applied>>
    /\ UNCHANGED memops
    /\ UNCHANGED <<pid, rdr>>

NoAdvance ==
    /\ wst = "open"
    /\ advance
    /\ advance' = FALSE
    /\ last' = Did("no_advance", 0, <<>>, World(0))
    /\ UNCHANGED <<procVars, mem, maps, memops, wst, waddress, data, accepted,
                   applied>>
    /\ UNCHANGED <<pid, rdr>>

Advance ==
    /\ wst = "open"
    /\ ~advance
    /\ advance' = TRUE
    /\ last' = Did("advance", 0, <<>>, World(0))
    /\ UNCHANGED <<procVars, mem, maps, memops, wst, waddress, data, accepted,
                   applied>>
    /\ UNCHANGED <<pid, rdr>>

Goto(address) ==
    /\ wst = "open"
    /\ address # waddress
    /\ waddress' = address
    /\ last' = Did("goto", address, <<>>, World(0))
    /\ UNCHANGED <<procVars, mem, maps, memops, wst, data, advance, accepted,
                   applied>>
    /\ UNCHANGED <<pid, rdr>>

Write(buf) ==
    /\ wst = "open"
    /\ accepted + Len(buf) <= MaxBytes
    /\ LET w == write(WriterWorld(0), buf)
       IN  /\ Commit(w)
           /\ waddress' = w.address
           /\ data' = w.data
           /\ last' = Did("write", 0, buf, w)
    /\ accepted' = accepted + Len(buf)
    /\ UNCHANGED <<life, traced, maps, fresh, detaches, memops, wst, advance,
                   applied>>
    /\ UNCHANGED <<pid, rdr>>

Flush(f) ==
    /\ wst = "open"
    /\ Budget \/ data = <<>>
    /\ LET w == flush(WriterWorld(f))
       IN  /\ CommitWriter(w)
           /\ last' = Did("flush", 0, <<>>, w)
    /\ fresh' = (fresh /\ data = <<>>)
    /\ UNCHANGED <<life, traced, maps, detaches, wst, advance, accepted>>
    /\ memops' = IF mem' # mem THEN memops + 1 ELSE memops
    /\ UNCHANGED <<pid, rdr>>

DropWriter(f) ==
    /\ wst = "open"
    /\ Budget \/ data = <<>>
    /\ LET w == drop_writer(WriterWorld(f))
       IN  /\ CommitWriter(w)
           /\ last' = Did("drop_writer", 0, <<>>, w)
           /\ wst' = IF w.err THEN "panicked" ELSE "released"
    /\ fresh' = (fresh /\ data = <<>>)
    /\ UNCHANGED <<life, traced, maps, detaches, advance, accepted>>
    /\ memops' = IF mem' # mem THEN memops + 1 ELSE memops
    /\ rdr' = IF rdr.st = "suspended" THEN [rdr EXCEPT !.st = "open"] ELSE rdr
    /\ UNCHANGED pid

NextWriter ==
    \/ \E f \in Fuels : New(f)
    \/ \E f \in Fuels : Budget /\ wst # "open" /\ Stop(f)
    \/ \E f \in Fuels : Budget /\ wst # "open" /\ Cont(f)
    \/ \E a \in WriterAddresses, f \in Fuels : Budget /\ OpenWriter(a, f)
    \/ Budget /\ NoAdvance
    \/ Budget /\ Advance
    \/ \E a \in WriterAddresses : Budget /\ Goto(a)
    \/ \E b \in Bufs(accepted) : Budget /\ Write(b)
    \/ \E f \in Fuels : Flush(f)
    \/ \E f \in Fuels : DropWriter(f)
    \/ \E f \in Fuels : DropProcess(f)

InitWriter == Init /\ maps = MapsNormal

SpecWriter == InitWriter /\ [][NextWriter]_vars

(***************************************************************************)
(* The streams of one Process.  A stream holds `proc: &'a mut Process`:   *)
(* while it lives the Process is reached through it alone.                *)
(***************************************************************************)
\* no stream ever holds the Process
Borrowed_never == FALSE

\* a stream that has not gone out of scope: usable, or reborrowed by the
\* stream that was opened through it
Alive(st) == st \in {"open", "suspended"}

\* a live stream holds the exclusive borrow of the Process
Borrowed == Alive(wst) \/ Alive(rdr.st)

\* the reader a successful opening operation returns
Opened(w, length) ==
    IF w.err \/ w.panic THEN rdr
    ELSE [st |-> "open", address |-> w.address, length |-> length,
          advance |-> TRUE]

CommitOpenWriter(w) ==
    /\ Commit(w)
    /\ wst' = IF w.err \/ w.panic THEN wst ELSE "open"
    /\ waddress' = IF w.err \/ w.panic THEN waddress ELSE w.address
    /\ data' = IF w.err \/ w.panic THEN data ELSE <<>>
    /\ advance' = IF w.err \/ w.panic THEN advance ELSE TRUE

\* Process::reader(address, length)
OpenReader(address, length, f) ==
    /\ life = "attached"
    /\ ~Borrowed
    /\ LET w == reader(StreamWorld(f, FALSE), address)
       IN  /\ Commit(w)
           /\ rdr' = Opened(w, length)
           /\ last' = Did("reader", address, <<length>>, w)
    /\ UNCHANGED <<life, traced, maps, fresh, detaches, memops, writerVars,
                   pid>>

\* reader(address, length) called through the open writer (DerefMut): the
\* writer is reborrowed until the reader goes out of scope
OpenReaderThrough(address, length, f) ==
    /\ life = "attached"
    /\ wst = "open" /\ ~Alive(rdr.st)
    /\ LET w == reader(StreamWorld(f, FALSE), address)
       IN  /\ Commit(w)
           /\ rdr' = Opened(w, length)
           /\ wst' = IF w.err THEN wst ELSE "suspended"
           /\ last' = Did("reader", address, <<length>>, w)
    /\ UNCHANGED <<life, traced, maps, fresh, detaches, memops, waddress, data,
                   advance, accepted, applied, pid>>

\* writer(address) called through the open reader (DerefMut)
OpenWriterThrough(address, f) ==
    /\ life = "attached"
    /\ rdr.st = "open" /\ ~Alive(wst)
    /\ LET w == writer(StreamWorld(f, FALSE), address)
       IN  /\ CommitOpenWriter(w)
           /\ rdr' = [rdr EXCEPT !.st = IF w.err THEN @ ELSE "suspended"]
           /\ last' = Did("writer", address, <<>>, w)
    /\ UNCHANGED <<life, traced, maps, fresh, detaches, memops, accepted,
                   applied, pid>>

\* Process::reader_offset(offset, length)
ReaderOffset(offset, length, f, checks) ==
    /\ life = "attached"
    /\ ~Borrowed
    /\ LET w == reader_offset(StreamWorld(f, checks), offset)
       IN  /\ Commit(w)
           /\ rdr' = Opened(w, length)
           /\ last' = Did("reader_offset", offset, <<length>>, w)
    /\ UNCHANGED <<life, traced, maps, fresh, detaches, memops, writerVars,
                   pid>>

\* Process::reader_addr(address, length)
ReaderAddr(address, length, f, checks) ==
    /\ life = "attached"
    /\ ~Borrowed
    /\ LET w == reader_addr(StreamWorld(f, checks), address)
       IN  /\ Commit(w)
           /\ rdr' = Opened(w, length)
           /\ last' = Did("reader_addr", address, <<length>>, w)
    /\ UNCHANGED <<life, traced, maps, fresh, detaches, memops, writerVars,
                   pid>>

\* Process::writer_offset(offset)
WriterOffset(offset, f, checks) ==
    /\ life = "attached"
    /\ ~Borrowed
    /\ LET w == writer_offset(StreamWorld(f, checks), offset)
       IN  /\ CommitOpenWriter(w)
           /\ last' = Did("writer_offset", offset, <<>>, w)
    /\ UNCHANGED <<life, traced, maps, fresh, detaches, memops, accepted,
                   applied, pid, rdr>>

\* Process::writer_addr(address)
WriterAddr(address, f, checks) ==
    /\ life = "attached"
    /\ ~Borrowed
    /\ LET w == writer_addr(StreamWorld(f, checks), address)
       IN  /\ CommitOpenWriter(w)
           /\ last' = Did("writer_addr", address, <<>>, w)
    /\ UNCHANGED <<life, traced, maps, fresh, detaches, memops, accepted,
                   applied, pid, rdr>>

\* ProcessWriter::goto_offset(offset)
WriterGotoOffset(offset, checks) ==
    /\ wst = "open"
    /\ LET w == ProcessWriter_goto_offset(
                    WriterWorld(0) @@ [checks |-> checks], offset)
       IN  /\ Commit(w)
           /\ waddress' = w.address
           /\ wst' = IF w.panic THEN "panicked" ELSE wst
           /\ last' = Did("writer_goto_offset", offset, <<>>, w)
    /\ UNCHANGED <<life, traced, maps, fresh, detaches, memops, data, advance,
                   accepted, applied, pid, rdr>>

\* ProcessReader::no_advance()
ReaderNoAdvance ==
    /\ rdr.st = "open"
    /\ rdr.advance
    /\ rdr' = [rdr EXCEPT !.advance = FALSE]
    /\ last' = Did("reader_no_advance", 0, <<>>, World(0))
    /\ UNCHANGED <<procVars, mem, maps, memops, writerVars, pid>>

\* ProcessReader::advance()
ReaderAdvance ==
    /\ rdr.st = "open"
    /\ ~rdr.advance
    /\ rdr' = [rdr EXCEPT !.advance = TRUE]
    /\ last' = Did("reader_advance", 0, <<>>, World(0))
    /\ UNCHANGED <<procVars, mem, maps, memops, writerVars, pid>>

\* ProcessReader::goto(address)
ReaderGoto(address) ==
    /\ rdr.st = "open"
    /\ rdr' = [rdr EXCEPT !.address = address]
    /\ last' = Did("reader_goto", address, <<>>, World(0))
    /\ UNCHANGED <<procVars, mem, maps, memops, writerVars, pid>>

\* ProcessReader::goto_offset(offset)
ReaderGotoOffset(offset, checks) ==
    /\ rdr.st = "open"
    /\ LET w == ProcessReader_goto_offset(ReaderWorld(0, checks, <<>>), offset)
       IN  /\ Commit(w)
           /\ rdr' = [rdr EXCEPT !.address = w.address,
                                 !.st = IF w.panic THEN "panicked" ELSE @]
           /\ last' = Did("reader_goto_offset", offset, <<>>, w)
    /\ UNCHANGED <<life, traced, maps, fresh, detaches, memops, writerVars,
                   pid>>

\* ProcessReader::read(buf) on a zeroed buffer of n bytes
Read(n, f, checks) ==
    /\ rdr.st = "open"
    /\ LET w == read(ReaderWorld(f, checks, ZeroBuf(n)))
       IN  /\ Commit(w)
           /\ rdr' = [rdr EXCEPT !.address = w.address,
                                 !.st = IF w.panic THEN "panicked" ELSE @]
           /\ last' = Did("read", n, ZeroBuf(n), w)
    /\ fresh' = FALSE
    /\ UNCHANGED <<life, traced, maps, detaches, memops, writerVars, pid>>

\* the reader goes out of scope: ProcessReader has no Drop
DropReader ==
    /\ rdr.st = "open"
    /\ rdr' = [rdr EXCEPT !.st = "released"]
    /\ wst' = IF wst = "suspended" THEN "open" ELSE wst
    /\ last' = Did("drop_reader", 0, <<>>, World(0))
    /\ UNCHANGED <<procVars, mem, maps, memops, waddress, data, advance,
                   accepted, applied, pid>>

NextReader ==
    \/ \E f \in Fuels : New(f)
    \/ \E f \in Fuels : ~Borrowed /\ Cont(f)
    \/ \E a \in WriterAddresses, n \in ReaderLengths, f \in Fuels :
          OpenReader(a, n, f)
    \/ ReaderNoAdvance
    \/ ReaderAdvance
    \/ \E a \in WriterAddresses : ReaderGoto(a)
    \/ \E n \in ReadBufLens, f \in Fuels, c \in BOOLEAN : Read(n, f, c)
    \/ DropReader
    \/ \E f \in Fuels : ~Borrowed /\ DropProcess(f)

SpecReader == InitWriter /\ [][NextReader]_vars

\* the reader and the writer of one Process together
NextBorrow ==
    \/ \E f \in Fuels : New(f)
    \/ \E f \in Fuels : Budget /\ ~Borrowed /\ Cont(f)
    \/ \E f \in Fuels : Budget /\ ~Borrowed /\ ReadWord(MemBase, f)
    \/ \E f \in Fuels : Budget /\ ~Borrowed /\ OpenWriter(MemBase + 5, f)
    \/ \E f \in Fuels : Budget /\ OpenWriterThrough(MemBase + 5, f)
    \/ \E b \in Bufs(accepted) : Budget /\ accepted = 0 /\ Write(b)
    \/ \E f \in Fuels : Flush(f)
    \/ \E f \in Fuels : DropWriter(f)
    \/ \E f \in Fuels : Budget /\ OpenReader(MemBase, POINTER_WIDTH, f)
    \/ \E f \in Fuels : Budget /\ OpenReaderThrough(MemBase, POINTER_WIDTH, f)
    \/ \E f \in Fuels : Budget /\ Read(POINTER_WIDTH, f, FALSE)
    \/ DropReader
    \/ \E f \in Fuels : ~Borrowed /\ DropProcess(f)

SpecBorrow == InitWriter /\ [][NextBorrow]_vars

NextStreams ==
    \/ \E f \in Fuels : New(f)
    \/ \E a \in WriterAddresses, f \in Fuels : ~Borrowed /\ ReadWord(a, f)
    \/ \E o \in StreamOffsets, f \in Fuels, c \in BOOLEAN :
          ReaderOffset(o, POINTER_WIDTH, f, c)
    \/ \E a \in StreamAddresses, f \in Fuels, c \in BOOLEAN :
          ReaderAddr(a, POINTER_WIDTH, f, c)
    \/ \E o \in StreamOffsets, c \in BOOLEAN : ReaderGotoOffset(o, c)
    \/ DropReader
    \/ \E o \in StreamOffsets, f \in Fuels, c \in BOOLEAN :
          WriterOffset(o, f, c)
    \/ \E a \in StreamAddresses, f \in Fuels, c \in BOOLEAN :
          WriterAddr(a, f, c)
    \/ \E o \in StreamOffsets, c \in BOOLEAN : WriterGotoOffset(o, c)
    \/ \E f \in Fuels : DropWriter(f)
    \/ \E f \in Fuels : ~Borrowed /\ DropProcess(f)

SpecStreams == Init /\ [][NextStreams]_vars

(***************************************************************************)
(* The pointer-chain resolver, over a target whose memory holds pointers. *)
(***************************************************************************)
PointerChain(address, offsets, f, checks) ==
    /\ life = "attached"
    /\ ~Borrowed
    /\ LET w == pointer_chain(StreamWorld(f, checks), address, offsets)
       IN  /\ Commit(w)
           /\ last' = Did("pointer_chain", address, offsets, w)
           /\ fresh' = (fresh /\ w.acc = <<>> /\ w.pauses = 0)
    /\ UNCHANGED <<life, traced, maps, detaches, memops, writerVars, pid, rdr>>

InitChain ==
    /\ life = "unattached"
    /\ stopped = FALSE
    /\ base = None
    /\ traced = FALSE
    /\ mem = MemPointers
    /\ maps \in MapsChoices
    /\ lastSig = "none"
    /\ fresh = FALSE
    /\ detaches = <<>>
    /\ memops = 0
    /\ wst = "none"
    /\ waddress = 0
    /\ data = <<>>
    /\ advance = TRUE
    /\ accepted = 0
    /\ applied = 0
    /\ pid = 0
    /\ rdr = NoReader
    /\ last = [NoOp EXCEPT !.preMem = mem]

NextChain ==
    \/ \E f \in Fuels : New(f)
    \/ \E f \in Fuels : ~Borrowed /\ Cont(f)
    \/ \E a \in WriterAddresses, f \in Fuels :
          OpenReader(a, POINTER_WIDTH, f)
    \/ DropReader
    \/ \E a \in WriterAddresses, f \in Fuels : ~Borrowed /\ OpenWriter(a, f)
    \/ \E f \in Fuels : DropWriter(f)
    \/ \E a \in ChainAddresses, o \in OffsetSeqs, f \in Fuels,
          c \in BOOLEAN : PointerChain(a, o, f, c)
    \/ \E f \in Fuels : ~Borrowed /\ DropProcess(f)

SpecChain == InitChain /\ [][NextChain]_vars

(***************************************************************************)
(* Process::find and Process::find_strict: the scan of /proc, then        *)
(* Process::new on the match (g = 1 the name cannot be read, g = 2 the    *)
(* attach is refused, g = 3 the wait for the stop fails).                  *)
(***************************************************************************)
Find(dir, target, strict, f, g) ==
    /\ life = "unattached"
    /\ LET r == find(dir, target, strict, f)
           attached == r.kind = "found" /\ g \notin 1..3
       IN  /\ life' = IF attached THEN "attached" ELSE "failed"
           /\ traced' = (r.kind = "found" /\ g \notin 1..2)
           /\ stopped' = attached
           /\ base' = None
           /\ lastSig' = IF r.kind = "found" /\ g \notin 1..2
                         THEN "attach" ELSE lastSig
           /\ fresh' = attached
           /\ pid' = IF attached THEN r.pid ELSE 0
           /\ last' = [Did(IF strict THEN "find_strict" ELSE "find", 0,
                           [dir |-> dir, target |-> target, f |-> f, g |-> g],
                           World(f))
                          EXCEPT !.ok = attached,
                                 !.ret = IF attached THEN <<r.pid>> ELSE <<>>,
                                 !.error = IF r.kind = "found"
                                           THEN (IF attached THEN "none"
                                                 ELSE "Err")
                                           ELSE r.kind]
    /\ UNCHANGED <<mem, maps, detaches, memops, writerVars, rdr>>

NextFind ==
    \/ \E d \in DirOrders, t \in Targets, s \in BOOLEAN, f \in Fuels,
          g \in Fuels : Find(d, t, s, f, g)
    \/ \E f \in Fuels : Stop(f)
    \/ \E f \in Fuels : Cont(f)
    \/ \E f \in Fuels : DropProcess(f)

SpecFind == InitWriter /\ [][NextFind]_vars

TypeOK ==
    /\ life \in {"unattached", "attached", "failed", "dropped", "panicked"}
    /\ stopped \in BOOLEAN
    /\ Len(base) <= 1
    /\ \A a \in MemAddrs : mem[a] \in Byte
    /\ memops \in 0..MaxMemOps

(***************************************************************************)
(* Properties of the Process controller.                                  *)
(***************************************************************************)
MemoryOps == {"read_word", "write_word", "read_word_offset",
              "write_word_offset", "flush", "drop_writer"}

\* C1: stop() is idempotent.  A successful stop() leaves stopped = TRUE and
\* sends one pause signal when the Process was not stopped and none when it
\* was; on a stopped Process it changes nothing; two successful stop() in a
\* row send one pause signal in total when the Process was not stopped
\* before the first, none otherwise.
C1_StopIdempotent ==
    [][\A f \in Fuels : (last'.op = "stop" /\ last'.ok /\ Stop(f)) =>
          /\ stopped'
          /\ last'.pauses = (IF stopped THEN 0 ELSE 1)
          /\ last'.resumes = 0
          /\ stopped => /\ UNCHANGED <<life, stopped, base, traced, mem,
                                       lastSig, detaches, writerVars>>
                        /\ last'.acc = <<>>
          /\ (last.op = "stop" /\ last.ok) =>
                /\ last'.pauses = 0
                /\ last.pauses + last'.pauses
                      = (IF last.preStopped THEN 0 ELSE 1)]_vars

\* two successful stop() in a row, the first of which sent the pause signal
C1_Witness ==
    /\ last.op = "stop" /\ last.ok /\ last.after = "stop"
    /\ last.preStopped /\ last.pauses = 0
    /\ lastSig = "SIGSTOP" /\ stopped

\* C2 as the claim states it: cont() on a Process on which no stop(), read or
\* write has been performed since the attach sends no signal and changes no
\* state; twice in a row it sends at most one resume signal and leaves
\* stopped = FALSE.
C2_ContNeverStoppedIsNoOp ==
    /\ (last.op = "cont" /\ last.preFresh) =>
          /\ last.resumes = 0
          /\ stopped = last.preStopped
    /\ (last.op = "cont" /\ last.ok /\ last.after = "cont") =>
          /\ last.resumes = 0
          /\ ~stopped

\* C2, amended: cont() sends a resume signal only when stopped is TRUE.  The
\* attach leaves stopped = TRUE, so the first cont() after it sends one
\* resume signal and sets stopped = FALSE; on a Process with stopped = FALSE
\* cont() sends nothing and changes nothing; twice in a row it sends at most
\* one resume signal and leaves stopped = FALSE.
C2_ContOnlyWhenStopped ==
    [][\A f \in Fuels : (last'.op = "cont" /\ Cont(f)) =>
          /\ last'.resumes = (IF stopped /\ last'.ok THEN 1 ELSE 0)
          /\ last'.pauses = 0
          /\ last'.acc = <<>>
          /\ last'.ok => ~stopped'
          /\ ~stopped => /\ last'.ok
                         /\ UNCHANGED <<life, stopped, base, traced, mem,
                                        lastSig, detaches, writerVars>>
          /\ (last.op = "new" /\ last.ok) =>
                /\ stopped
                /\ last'.ok => (last'.resumes = 1 /\ ~stopped')
          /\ (last.op = "cont" /\ last.ok /\ last'.ok) =>
                /\ last.resumes + last'.resumes <= 1
                /\ ~stopped']_vars

\* the first cont() after the attach has resumed the target
C2_Witness ==
    /\ last.op = "cont" /\ last.ok /\ last.after = "new"
    /\ last.preFresh /\ last.preStopped
    /\ last.resumes = 1 /\ lastSig = "SIGCONT" /\ ~stopped

\* C3: every backend memory read or write is issued while stopped = TRUE,
\* stopped = TRUE after a successful read or write, and no operation other
\* than cont() sends a resume signal (the drop passes it to the detach).
C3_AccessOnlyWhileStopped ==
    /\ \A i \in DOMAIN last.acc : last.acc[i].stopped
    /\ (last.op \in MemoryOps /\ last.ok /\ last.acc # <<>>) => stopped
    /\ (last.op \in {"read_word", "write_word"} /\ last.ok) =>
          (stopped /\ Len(last.acc) = 1)
    /\ last.op # "cont" => last.resumes = 0

\* a read_word on a running target has paused it and then read
C3_Witness ==
    /\ last.op = "read_word" /\ last.ok /\ ~last.preStopped
    /\ last.pauses = 1 /\ Len(last.acc) = 1 /\ last.acc[1].stopped
    /\ stopped /\ lastSig = "SIGSTOP"

\* C4: the drop issues exactly one detach request, with SIGCONT if and only
\* if stopped is TRUE at that moment; no detach is issued before the drop;
\* a failed detach is a panic.
C4_DropDetachesOnce ==
    /\ Len(detaches) <= 1
    /\ life \in {"unattached", "attached", "failed"} => detaches = <<>>
    /\ life \in {"dropped", "panicked"} =>
          /\ Len(detaches) = 1
          /\ detaches[1] = "SIGCONT" <=> stopped
          /\ detaches[1] = "None" <=> ~stopped
          /\ last.op = "drop"
          /\ last.ok <=> life = "dropped"
          /\ last.pauses = 0 /\ last.resumes = 0 /\ last.acc = <<>>

\* a Process that was used and is stopped has been dropped with SIGCONT
C4_Witness ==
    /\ life = "dropped" /\ stopped /\ ~fresh
    /\ detaches = <<"SIGCONT">>

\* C5 as the claim states it: stopped is TRUE if and only if the last
\* pause/resume event issued to the target was a pause (the stop of the
\* attach or a SIGSTOP), also after a failed stop() or cont().
C5_StoppedIffLastEventPause ==
    life = "attached" => (stopped <=> lastSig \in {"attach", "SIGSTOP"})

\* C6: base is write-once.  Once Some(b) it stays Some(b) in every step,
\* whatever the maps become, and get_base() on a cached base succeeds
\* without reading the maps.
C6_BaseWriteOnce ==
    [][/\ base # None => base' = base
       /\ \A f \in Fuels : (last'.op = "get_base" /\ base # None /\ GetBase(f)) =>
             /\ last'.ok
             /\ last'.lookups = 0]_vars

\* get_base() returned the cached 0x1000 although the maps now start the
\* first matching region at 0x1008
C6_Witness ==
    /\ last.op = "get_base" /\ last.ok /\ last.lookups = 0
    /\ last.preBase = base /\ base = Some(MemBase)
    /\ maps = MapsMoved

\* the word the target holds at addr, as read_word returns it
WordOf(m, addr) == [j \in 1..8 |-> m[addr + j - 1]]

\* C7: read_word_offset(o) and write_word_offset(o, V) issue one access, of
\* the word at base + o with the cached base; a successful
\* write_word_offset(o, V) changes exactly that word, a successful
\* read_word_offset(o) returns what read_word(base + o) returns, and it
\* returns V right after a successful write_word_offset(o, V).
C7_OffsetIsBasePlusOffset ==
    [][/\ \A o \in Offsets, f \in Fuels :
             (last'.op = "read_word_offset" /\ last'.a = o
                /\ ReadWordOffset(o, f)) =>
             /\ Len(last'.acc) <= 1
             /\ \A i \in DOMAIN last'.acc :
                   /\ last'.acc[i].kind = "read"
                   /\ base' # None
                   /\ last'.acc[i].addr = base'[1] + o
             /\ base # None => base' = base
             /\ last'.ok =>
                   /\ Len(last'.acc) = 1
                   /\ mem' = mem
                   /\ last'.ret = read_word(WorldOf(stopped', base', mem',
                                      lastSig', 0), base'[1] + o).ret
                   /\ (last.op = "write_word_offset" /\ last.ok /\ last.a = o)
                         => last'.ret = last.v
       /\ \A o \in Offsets, v \in Words, f \in Fuels :
             (last'.op = "write_word_offset" /\ last'.a = o /\ last'.v = v
                /\ WriteWordOffset(o, v, f)) =>
             /\ Len(last'.acc) <= 1
             /\ \A i \in DOMAIN last'.acc :
                   /\ last'.acc[i].kind = "write"
                   /\ base' # None
                   /\ last'.acc[i].addr = base'[1] + o
             /\ base # None => base' = base
             /\ last'.ok =>
                   /\ Len(last'.acc) = 1
                   /\ WordOf(mem', base'[1] + o) = v
                   /\ \A a \in MemAddrs :
                         (a < base'[1] + o \/ a > base'[1] + o + 7)
                            => mem'[a] = mem[a]
             /\ ~last'.ok => mem' = mem]_vars

\* base 0x1000: write_word_offset(0x10, 0x1122334455667788), then
\* read_word_offset(0x10) returned 0x1122334455667788
C7_Witness ==
    /\ last.op = "read_word_offset" /\ last.ok
    /\ last.after = "write_word_offset"
    /\ last.a = 16 /\ base = Some(MemBase)
    /\ last.ret = <<136, 119, 102, 85, 68, 51, 34, 17>>

(***************************************************************************)
(* Properties of the ProcessWriter.                                        *)
(***************************************************************************)
\* the addresses of the write requests of the last operation, in order
RECURSIVE WriteAddrs(_)
WriteAddrs(acc) ==
    IF acc = <<>> THEN <<>>
    ELSE IF acc[1].kind = "write" THEN <<acc[1].addr>> \o WriteAddrs(Tail(acc))
    ELSE WriteAddrs(Tail(acc))

\* the bytes B = last.preData are in memory from a = last.preAddress on and
\* every other byte is what it was
Landed ==
    \A x \in MemAddrs :
        mem[x] = IF x >= last.preAddress /\ x < last.preAddress + Len(last.preData)
                 THEN last.preData[x - last.preAddress + 1]
                 ELSE last.preMem[x]

\* C8: after a successful flush of the bytes B buffered at address a, the
\* target holds B at [a, a + len(B)) in order and every other byte, the tail
\* of the last word included, is unchanged; the k-th word written is the
\* one at a + 8k.
C8_FlushWritesExactlyB ==
    (last.op = "flush" /\ last.ok) =>
        /\ Landed
        /\ Len(WriteAddrs(last.acc)) = (Len(last.preData) + 7) \div 8
        /\ \A k \in DOMAIN WriteAddrs(last.acc) :
              WriteAddrs(last.acc)[k] = last.preAddress + 8 * (k - 1)

\* 11 bytes (one full chunk and 3 bytes) were flushed over non-zero memory:
\* the 5 bytes after them in the second word are the old ones
C8_Witness ==
    /\ last.op = "flush" /\ last.ok
    /\ Len(last.preData) = 11
    /\ mem # last.preMem
    /\ \A x \in (last.preAddress + 11)..(last.preAddress + 15) :
          mem[x] = last.preMem[x] /\ mem[x] # 0

\* C9: after a successful flush data is empty and address has moved by the
\* number of bytes flushed if advance is set, not at all otherwise; a flush
\* of an empty buffer succeeds without any signal or memory access; after a
\* failed flush data and address are what they were.
C9_FlushCursor ==
    last.op = "flush" =>
        /\ last.ok =>
              /\ data = <<>>
              /\ waddress = last.preAddress
                               + (IF advance THEN Len(last.preData) ELSE 0)
        /\ last.preData = <<>> =>
              /\ last.ok
              /\ last.acc = <<>> /\ last.pauses = 0 /\ last.resumes = 0
              /\ waddress = last.preAddress
              /\ mem = last.preMem /\ stopped = last.preStopped
        /\ ~last.ok =>
              /\ data = last.preData
              /\ waddress = last.preAddress

\* a flush failed after it had changed the target: the buffer and the
\* address are still there for the next flush
C9_Witness ==
    /\ last.op = "flush" /\ ~last.ok
    /\ mem # last.preMem
    /\ data # <<>> /\ data = last.preData /\ waddress = last.preAddress

\* C10: a released writer has an empty buffer and every byte write() has
\* accepted has been taken by a successful flush; the drop of a writer with
\* pending bytes puts them into the target, and panics if that flush fails.
C10_NoBytesLost ==
    /\ wst = "released" => (data = <<>> /\ applied = accepted)
    /\ wst = "open" => applied + Len(data) = accepted
    /\ last.op = "drop_writer" =>
          /\ last.ok <=> wst = "released"
          /\ ~last.ok <=> wst = "panicked"
          /\ last.ok => Landed
          /\ last.preData = <<>> => (last.ok /\ last.acc = <<>>)

\* a writer was dropped with 3 pending bytes and the drop flushed them
C10_Witness ==
    /\ wst = "released" /\ last.op = "drop_writer" /\ last.ok
    /\ Len(last.preData) = 3 /\ data = <<>>
    /\ mem # last.preMem

(***************************************************************************)
(* Properties of the streams.                                              *)
(***************************************************************************)
\* C11: write(bytes) only buffers.  It appends the bytes to the pending
\* bytes in order, returns their number and never fails; it changes neither
\* the target's memory nor the writer's address nor stopped, and it sends no
\* signal and makes no memory access.
C11_WriteOnlyBuffers ==
    last.op = "write" =>
        /\ data = last.preData \o last.v
        /\ last.ret = <<Len(last.v)>>
        /\ last.ok /\ ~last.panic
        /\ mem = last.preMem
        /\ waddress = last.preAddress
        /\ stopped = last.preStopped
        /\ base = last.preBase
        /\ last.acc = <<>>
        /\ last.pauses = 0 /\ last.resumes = 0 /\ last.lookups = 0

\* a second write on a writer of a running target that holds bytes already
C11_Witness ==
    /\ last.op = "write" /\ last.ok
    /\ last.preData # <<>> /\ Len(last.v) = 8
    /\ Len(data) = Len(last.preData) + 8
    /\ ~stopped
\* C12: a successful read(buf) produces exactly n = min(buf.len(), length)
\* bytes: it returns n, buf[k] is the byte of the target at address + k for
\* every k < n, and no slot of buf at an index >= n is written; read never
\* indexes past the end of buf, also when n is not a multiple of 8.
C12_ReadExactlyN ==
    last.op = "read" =>
        /\ ~last.panic
        /\ last.ok =>
             LET n == Min(last.a, last.preReader.length)
             IN  /\ last.ret = <<n>>
                 /\ Len(last.buf) = last.a
                 /\ \A k \in 0..(last.a - 1) :
                       last.buf[k + 1] =
                          IF k < n THEN last.preMem[last.preReader.address + k]
                          ELSE last.v[k + 1]
\* the word of memory m at addr, as an address
PointerAt(m, addr) == from_le_bytes(WordOf(m, addr))

\* the address the chain from the i-th offset on resolves to
RECURSIVE Resolve(_, _, _, _)
Resolve(m, current, offsets, i) ==
    IF i > Len(offsets) THEN current
    ELSE Resolve(m, PointerAt(m, current) + offsets[i], offsets, i + 1)

\* C13: pointer_chain(A, offsets) returns the address obtained by processing
\* the offsets in order, each step replacing the current address with (the
\* word stored at the current address) + offset; in every state
\* pointer_chain(A, []) returns A without reading memory, and
\* pointer_chain(A, [0]) returns the word stored at A.
C13_ChainResolves ==
    last.op = "pointer_chain" =>
        /\ last.ok =>
              last.ret = <<Resolve(last.preMem, last.a, last.v, 1)>>
        /\ last.v = <<>> =>
              /\ last.ok /\ ~last.panic
              /\ last.ret = <<last.a>>
              /\ last.acc = <<>>
        /\ (last.v = <<0>> /\ last.ok) =>
              last.ret = <<PointerAt(last.preMem, last.a)>>
\* C14: a negative offset whose magnitude exceeds the address just read
\* makes pointer_chain return an error; the address computation never wraps
\* around and never aborts the program.  (No word of the target is 2^63 or
\* more, so a result below 0 here is a wrapped one: 2^64 - k is held as -k.)
C14_UnderflowIsError ==
    last.op = "pointer_chain" =>
        /\ ~last.panic
        /\ last.ok => last.ret[1] >= 0

\* C20: reader(), writer() and pointer_chain() resolve the base before
\* anything else.  When the lookup fails they return its error without any
\* access to the target's memory, without a pause signal and with stopped
\* unchanged; when they succeed base is Some afterwards.
C20_BaseResolvedFirst ==
    last.op \in {"reader", "writer", "pointer_chain"} =>
        /\ (last.ok /\ ~last.panic) => base # None
        /\ last.preBase = None => last.lookups = 1
        /\ (last.preBase = None /\ base = None) =>
              /\ ~last.ok
              /\ last.acc = <<>>
              /\ last.pauses = 0 /\ last.resumes = 0
              /\ stopped = last.preStopped
              /\ mem = last.preMem
              /\ rdr = last.preReader
              /\ wst # "open"

\* the three operations have failed on a running Process whose maps hold
\* no fitting line, the last of them pointer_chain with a non-empty chain
C20_Witness ==
    /\ last.op = "pointer_chain" /\ ~last.ok /\ last.v # <<>>
    /\ last.preBase = None /\ base = None
    /\ last.lookups = 1 /\ last.acc = <<>>
    /\ ~stopped
    /\ maps = MapsNoFit
\* C15: a successful read that returns n moves the cursor by exactly n when
\* advance is set and leaves it where it was after no_advance(), so that a
\* second read over unchanged memory returns the same window; goto(address)
\* sets the cursor to address and reads no memory.
C15_ReadCursor ==
    [][/\ (last'.op = "read" /\ last'.ok /\ ~last'.panic) =>
            /\ rdr.st = "open"
            /\ rdr'.address =
                  rdr.address + (IF rdr.advance THEN last'.ret[1] ELSE 0)
            /\ rdr'.advance = rdr.advance /\ rdr'.length = rdr.length
            /\ (last.op = "read" /\ last.ok /\ ~rdr.advance
                    /\ last.a = last'.a) =>
                  /\ last'.buf = last.buf
                  /\ last'.ret = last.ret
       /\ last'.op = "reader_goto" =>
            /\ rdr'.address = last'.a
            /\ last'.acc = <<>> /\ last'.pauses = 0 /\ last'.lookups = 0
            /\ UNCHANGED <<procVars, mem>>]_vars

\* a second read of 3 bytes into 8 after no_advance(), at the same cursor
C15_Witness ==
    /\ last.op = "read" /\ last.ok /\ ~last.panic
    /\ last.after = "read"
    /\ ~rdr.advance /\ rdr.address = last.preReader.address
    /\ last.ret = <<3>> /\ last.a = 8
    /\ last.buf[1] = mem[rdr.address]
\* C16: reader_addr(address, length) and writer_addr(address) return a
\* stream whose cursor starts at the absolute address `address`, for every
\* address and every base.
C16_AddrIsAbsolute ==
    /\ last.op = "reader_addr" =>
          /\ ~last.panic
          /\ last.ok => (rdr.st = "open" /\ rdr.address = last.a)
    /\ last.op = "writer_addr" =>
          /\ ~last.panic
          /\ last.ok => (wst = "open" /\ waddress = last.a)

\* C19: for every signed offset o and base b, reader_offset, writer_offset
\* and goto_offset put the cursor at b + o, that is at b - |o| when o is
\* negative, without wrapping around and without aborting.
C19_OffsetIsSigned ==
    /\ last.op \in {"reader_offset", "reader_goto_offset"} =>
          /\ ~last.panic
          /\ last.ok => (rdr.st = "open" /\ rdr.address = base[1] + last.a)
    /\ last.op \in {"writer_offset", "writer_goto_offset"} =>
          /\ ~last.panic
          /\ last.ok => (wst = "open" /\ waddress = base[1] + last.a)
\* the pids of the live processes that match target
Matching(dir, target, strict) ==
    { parse_pid(dir[k].file) :
        k \in { k \in DOMAIN dir :
                  /\ all_numeric(dir[k].file)
                  /\ IF strict THEN dir[k].name = target
                     ELSE contains(dir[k].name, target) } }

\* C17: when no backend call fails, find(target) attaches to the process
\* with the lowest pid among the live processes whose name contains target,
\* whatever the order of the process table; find_strict(target) to one whose
\* name is target; each fails with NotFound when no process matches.
C17_FindLowestPid ==
    (last.op \in {"find", "find_strict"} /\ last.v.f = 0 /\ last.v.g = 0) =>
        LET M == Matching(last.v.dir, last.v.target, last.op = "find_strict")
        IN  IF M = {} THEN ~last.ok /\ last.error = "NotFound"
            ELSE /\ last.ok
                 /\ pid \in M
                 /\ \A q \in M : pid <= q
C21_FailedAttachLeaksNothing ==
    (last.op = "new" /\ ~last.ok) =>
        /\ ~traced
        /\ lastSig # "attach"
====
